---- MODULE Spec2Model ----
(***************************************************************************)
(* Model of server/eth_runner.js: one process invocation                   *)
(*   node eth_runner.js <action> <json_payload>                            *)
(* from module load to process.exit.                                       *)
(*                                                                         *)
(* JavaScript values are strings with a type tag: "undefined", "null",     *)
(* "str:" (the empty string), "str:S1", "num:0", "num:30", "bool:true".    *)
(* Address strings, which sanitizeAddress edits character by character,    *)
(* are sequences of one-character strings; Null stands for null/undefined. *)
(* Error messages are sequences of message parts.                          *)
(***************************************************************************)
EXTENDS Integers, Sequences, FiniteSets, TLC

VARIABLES
    argv,            \* process.argv.slice(2): [n, action, payload]
    env,             \* process.env: CONTRACT_ADDRESS, PRIVATE_KEY, GAS_LIMIT
    remote,          \* state of the deployed contract (external)
    pc,              \* position of the invocation
    action,          \* main: const action
    payload,         \* main: const payload (parsed)
    error,           \* the Error in flight: its message
    result,          \* main: let result
    stdout,          \* objects written by console.log
    stderr,          \* number of lines written by console.error
    exitCode,        \* process.exit code, -1 while running
    calls,           \* remote calls made on the contract, in order
    getContractCalls,\* number of getContract() invocations
    contractAddress, \* getContract: let contractAddress
    descriptorRead,  \* deployment.json was consulted
    deployment,      \* what deployment.json held when it was consulted
    provider,        \* getContract: let provider (how it was built)
    wallet,          \* getContract: let wallet (which key it holds)
    contract         \* getContract: const contract (address bound, methods)

vars == <<argv, env, remote, pc, action, payload, error, result, stdout, stderr,
          exitCode, calls, getContractCalls, contractAddress, descriptorRead,
          deployment, provider, wallet, contract>>

-----------------------------------------------------------------------------
(* Bounds of the model *)

\* longest address body (the characters after "0x") drawn for the environment
MaxAddrLen == 1

\* characters an address body is drawn from
AddrChars == {"a", "0"}

-----------------------------------------------------------------------------
(* JavaScript values *)

Null == <<"null">>

\* !v for tagged values
Falsy(v) == v \in {"undefined", "null", "str:", "num:0", "bool:false"}

\* !s for address strings (null, undefined and "" are falsy)
FalsyStr(s) == s = Null \/ s = <<>>

\* a || b on address strings
Or(a, b) == IF FalsyStr(a) THEN b ELSE a

\* a || b on tagged values
OrVal(a, b) == IF Falsy(a) THEN b ELSE a

\* Number(x) for the values the remote returns
Number(v) ==
    CASE v = "big:0" -> "num:0"
      [] v = "big:7" -> "num:7"
      [] v = "str:500000" -> "num:500000"
      [] OTHER -> v

\* `${error && error.message ? error.message : error}` / String(error)
MessageOf(msg) == IF msg = <<>> THEN <<"Error">> ELSE msg

Contains(msg, part) == \E i \in 1..Len(msg) : msg[i] = part

-----------------------------------------------------------------------------
(* sanitizeAddress *)

Includes(s, c) == \E i \in 1..Len(s) : s[i] = c

Has0x(s) == \E i \in 1..(Len(s) - 1) : s[i] = "0" /\ s[i + 1] = "x"

\* raw.indexOf("0x"), 1-based; 0 when absent
IndexOf0x(s) ==
    IF Has0x(s)
    THEN CHOOSE i \in 1..(Len(s) - 1) :
            /\ s[i] = "0" /\ s[i + 1] = "x"
            /\ \A j \in 1..(i - 1) : ~(s[j] = "0" /\ s[j + 1] = "x")
    ELSE 0

RECURSIVE StripLeft(_, _)
StripLeft(s, c) == IF s # <<>> /\ Head(s) = c THEN StripLeft(Tail(s), c) ELSE s

RECURSIVE StripRight(_, _)
StripRight(s, c) ==
    IF s # <<>> /\ s[Len(s)] = c THEN StripRight(SubSeq(s, 1, Len(s) - 1), c) ELSE s

\* s.replace(/^c+|c+$/g, "")
StripBoth(s, c) == StripRight(StripLeft(s, c), c)

\* s.trim()
Trim(s) == StripBoth(s, " ")

sanitizeAddress(raw) ==
    IF FalsyStr(raw) THEN <<>>
    ELSE LET r == IF Includes(raw, "=") /\ Has0x(raw)
                  THEN SubSeq(raw, IndexOf0x(raw), Len(raw))
                  ELSE raw
         IN  StripBoth(StripBoth(Trim(r), "\""), "'")

-----------------------------------------------------------------------------
(* Module-level configuration, computed from the environment at load *)

\* CONFIG.PRIVATE_KEY: which key the wallet will be built from
CONFIG_PRIVATE_KEY == IF env.PRIVATE_KEY = "unset" THEN "default" ELSE env.PRIVATE_KEY

\* CONFIG.CONTRACT_ADDRESS
CONFIG_CONTRACT_ADDRESS == Or(env.CONTRACT_ADDRESS, Null)

\* CONFIG.GAS_LIMIT
CONFIG_GAS_LIMIT ==
    IF Falsy(env.GAS_LIMIT) THEN "num:7000000" ELSE Number(env.GAS_LIMIT)

SANITIZED_ENV_CONTRACT == sanitizeAddress(env.CONTRACT_ADDRESS)

EFFECTIVE_CONTRACT_ADDR == Or(Or(SANITIZED_ENV_CONTRACT, CONFIG_CONTRACT_ADDRESS), Null)

CONTRACT_ABI == {"createSession", "markAttendance", "hasAttended", "getAttendanceRecord",
                 "isSessionValid", "getTotalRecords", "getRecordByIndex",
                 "authorizeTeacher", "registerStudent"}

-----------------------------------------------------------------------------
(* Inputs of one invocation *)

Handlers == {"createSession", "markAttendance", "isSessionValid", "hasAttended",
             "getAttendanceRecord", "getTotalRecords", "getRecordByIndex",
             "authorizeTeacher", "registerStudent"}

ActionNames == Handlers \cup {"frobnicate", ""}

Fields == {"sessionCode", "classId", "studentId", "index", "teacherAddress",
           "studentAddress", "durationMinutes"}

\* the fields a handler destructures from its payload
Destructured(h) ==
    CASE h = "createSession"       -> {"sessionCode", "classId", "durationMinutes"}
      [] h = "markAttendance"      -> {"sessionCode", "studentId", "classId"}
      [] h = "isSessionValid"      -> {"sessionCode"}
      [] h = "hasAttended"         -> {"sessionCode", "studentId"}
      [] h = "getAttendanceRecord" -> {"sessionCode", "studentId"}
      [] h = "getRecordByIndex"    -> {"index"}
      [] h = "authorizeTeacher"    -> {"teacherAddress"}
      [] h = "registerStudent"     -> {"studentId", "studentAddress"}
      [] OTHER                     -> {}

\* the values a payload field is drawn from
FieldValues(f) ==
    CASE f = "index"           -> {"undefined", "null", "str:", "num:0", "num:2"}
      [] f = "durationMinutes" -> {"undefined", "null", "num:0", "num:45"}
      [] OTHER                 -> {"undefined", "str:", "str:" \o f}

EmptyObject == [f \in Fields |-> "undefined"]

\* the values field f takes in a payload given to action a: the fields the
\* handler reads vary, the others are absent
Given(a, f) == IF f \in Destructured(a) THEN FieldValues(f) ELSE {"undefined"}

\* JSON objects given to action a
Objects(a) ==
    [sessionCode : Given(a, "sessionCode"), classId : Given(a, "classId"),
     studentId : Given(a, "studentId"), index : Given(a, "index"),
     teacherAddress : Given(a, "teacherAddress"),
     studentAddress : Given(a, "studentAddress"),
     durationMinutes : Given(a, "durationMinutes")]

\* args[1]: omitted, "", not JSON, the JSON null, a JSON number, a JSON object
PayloadArgs(a) ==
    {[kind |-> k, f |-> EmptyObject] : k \in {"empty", "invalid", "null", "prim"}}
    \cup {[kind |-> "object", f |-> o] : o \in Objects(a)}

Argvs ==
    {[n |-> 0, action |-> "", payload |-> [kind |-> "omitted", f |-> EmptyObject]]}
    \cup {[n |-> 1, action |-> a, payload |-> [kind |-> "omitted", f |-> EmptyObject]] :
            a \in ActionNames}
    \cup UNION {{[n |-> 2, action |-> a, payload |-> p] : p \in PayloadArgs(a)} :
            a \in ActionNames}

RECURSIVE Bodies(_)
Bodies(n) ==
    IF n = 0 THEN {<<>>}
    ELSE LET shorter == Bodies(n - 1)
         IN  shorter \cup {Append(b, c) : b \in shorter, c \in AddrChars}

\* addresses "0x..."
Addresses == {<<"0", "x">> \o b : b \in Bodies(MaxAddrLen)}

KeyPrefix == <<"C", "A", "=">>
DQ == <<"\"">>
SQ == <<"'">>

\* the ways an address reaches CONTRACT_ADDRESS
Forms(A) ==
    {A, KeyPrefix \o A, DQ \o A \o DQ, SQ \o A \o SQ,
     KeyPrefix \o DQ \o A \o DQ, KeyPrefix \o SQ \o A \o SQ,
     DQ \o KeyPrefix \o A \o DQ, SQ \o KeyPrefix \o A \o SQ}

\* values of process.env.CONTRACT_ADDRESS: unset, empty, blank, only quotes, or an address
EnvAddresses ==
    {Null, <<>>, <<" ">>, DQ \o DQ, SQ \o SQ} \cup UNION {Forms(A) : A \in Addresses}

Envs ==
    [CONTRACT_ADDRESS : EnvAddresses,
     PRIVATE_KEY : {"unset", "valid", "invalid"},
     GAS_LIMIT : {"undefined", "str:500000"}]

Remotes == [sessionValid : {"bool:true", "bool:false"},
            attended : {"bool:true", "bool:false"}]

\* deployment.json: missing, unparseable, or an object with contractAddress / address
FileAddr == <<"0", "x", "d">>
AltAddr == <<"0", "x", "e">>
NoDeployment == [exists |-> FALSE, parses |-> FALSE, contractAddress |-> Null, address |-> Null]
Deployments ==
    {NoDeployment,
     [exists |-> TRUE, parses |-> FALSE, contractAddress |-> Null, address |-> Null]}
    \cup [exists : {TRUE}, parses : {TRUE}, contractAddress : {Null, <<>>, FileAddr},
          address : {Null, AltAddr}]

NoResult == [success |-> "undefined"]
NoContract == [address |-> Null, methods |-> {}, signer |-> "none"]

Init ==
    /\ argv \in Argvs
    /\ env \in Envs
    /\ remote \in Remotes
    /\ pc = "main"
    /\ action = ""
    /\ payload = [kind |-> "object", f |-> EmptyObject]
    /\ error = <<>>
    /\ result = NoResult
    /\ stdout = <<>>
    /\ stderr = 3          \* the three module-level diagnostics
    /\ exitCode = -1
    /\ calls = <<>>
    /\ getContractCalls = 0
    /\ contractAddress = Null
    /\ descriptorRead = FALSE
    /\ deployment = NoDeployment
    /\ provider = "none"
    /\ wallet = "none"
    /\ contract = NoContract

-----------------------------------------------------------------------------
(* main *)

\* a throw that reaches main's catch
Throw(msg) == pc' = "catch" /\ error' = msg

\* JSON.parse(args[1]) for the payloads that parse; args[1] falsy gives {}
Parse(p) ==
    CASE p.kind \in {"omitted", "empty"} -> [kind |-> "object", f |-> EmptyObject]
      [] p.kind = "null"                 -> [kind |-> "null", f |-> EmptyObject]
      [] p.kind = "prim"                 -> [kind |-> "prim", f |-> EmptyObject]
      [] OTHER                           -> [kind |-> "object", f |-> p.f]

\* const { name } = payload, for a payload that is not null
Get(p, name) == IF p.kind = "object" THEN p.f[name] ELSE "undefined"

\* the TypeError of destructuring null
DestructureError(name) == <<"Cannot destructure property '", name, "' of 'payload' as it is null.">>

\* lines 421-428: read the arguments, parse the payload
main_parse ==
    /\ pc = "main"
    /\ IF argv.n < 1
       THEN Throw(<<"Usage: node eth_runner.js <action> <json_payload>">>)
            /\ UNCHANGED <<action, payload>>
       ELSE /\ action' = argv.action
            /\ IF argv.payload.kind = "invalid"
               THEN Throw(<<"Unexpected token in JSON">>) /\ UNCHANGED payload
               ELSE payload' = Parse(argv.payload) /\ pc' = "switch" /\ UNCHANGED error
    /\ UNCHANGED <<argv, env, remote, result, stdout, stderr, exitCode, calls,
                   getContractCalls, contractAddress, descriptorRead, deployment,
                   provider, wallet, contract>>

\* a switch whose default case falls through to the handlers instead of throwing
main_switch_fallthrough ==
    /\ pc = "switch"
    /\ pc' = "handler"
    /\ UNCHANGED <<argv, env, remote, action, payload, error, result, stdout, stderr,
                   exitCode, calls, getContractCalls, contractAddress, descriptorRead,
                   deployment, provider, wallet, contract>>

\* lines 432-462: the switch on the action name
main_switch ==
    /\ pc = "switch"
    /\ IF action \in Handlers
       THEN pc' = "handler" /\ UNCHANGED error
       ELSE Throw(<<"Unknown action", ": ", action>>)
    /\ UNCHANGED <<argv, env, remote, action, payload, result, stdout, stderr, exitCode,
                   calls, getContractCalls, contractAddress, descriptorRead, deployment,
                   provider, wallet, contract>>

\* lines 464-466: print the result, exit 0
main_print ==
    /\ pc = "return"
    /\ stdout' = Append(stdout, result)
    /\ exitCode' = 0
    /\ pc' = "done"
    /\ UNCHANGED <<argv, env, remote, action, payload, error, result, stderr, calls,
                   getContractCalls, contractAddress, descriptorRead, deployment,
                   provider, wallet, contract>>

\* main's catch that logs the error and exits without printing the error object
main_catch_silent ==
    /\ pc = "catch"
    /\ stderr' = stderr + 1
    /\ exitCode' = 1
    /\ pc' = "done"
    /\ UNCHANGED <<argv, env, remote, action, payload, error, result, stdout, calls,
                   getContractCalls, contractAddress, descriptorRead, deployment,
                   provider, wallet, contract>>

\* main's catch that prints the error object and exits with status 0
main_catch_exit0 ==
    /\ pc = "catch"
    /\ stderr' = stderr + 1
    /\ stdout' = Append(stdout, [success |-> "bool:false", error |-> MessageOf(error),
                                 stack |-> "str:stack"])
    /\ exitCode' = 0
    /\ pc' = "done"
    /\ UNCHANGED <<argv, env, remote, action, payload, error, result, calls,
                   getContractCalls, contractAddress, descriptorRead, deployment,
                   provider, wallet, contract>>

\* main's catch that runs the failed remote call once more before reporting
main_catch_retry ==
    /\ pc = "catch"
    /\ IF Len(calls) = 1
       THEN /\ pc' = "call"
            /\ UNCHANGED <<stdout, stderr, exitCode>>
       ELSE /\ stderr' = stderr + 1
            /\ stdout' = Append(stdout, [success |-> "bool:false",
                                         error |-> MessageOf(error), stack |-> "str:stack"])
            /\ exitCode' = 1
            /\ pc' = "done"
    /\ UNCHANGED <<argv, env, remote, action, payload, error, result, calls,
                   getContractCalls, contractAddress, descriptorRead, deployment,
                   provider, wallet, contract>>

\* lines 467-478: log the error, print the error object, exit 1
main_catch ==
    /\ pc = "catch"
    /\ stderr' = stderr + 1
    /\ stdout' = Append(stdout, [success |-> "bool:false", error |-> MessageOf(error),
                                 stack |-> "str:stack"])
    /\ exitCode' = 1
    /\ pc' = "done"
    /\ UNCHANGED <<argv, env, remote, action, payload, error, result, calls,
                   getContractCalls, contractAddress, descriptorRead, deployment,
                   provider, wallet, contract>>

-----------------------------------------------------------------------------
(* getContract *)

\* line 139: the catch that wraps every failure of getContract
InitError(msg) == <<"Failed to initialize contract", ": ">> \o MessageOf(msg)

NotFound == <<"Contract address not found", ". Please set CONTRACT_ADDRESS env or provide deployment.json.">>

\* line 76: the address before deployment.json is looked at
EnvContractAddress == Or(EFFECTIVE_CONTRACT_ADDR, CONFIG_CONTRACT_ADDRESS)

\* the descriptor read with its two keys in the other order
FromDeployment_addressFirst(d, addr) == Or(Or(d.address, d.contractAddress), addr)

\* line 83: the address after reading a deployment.json that parsed
FromDeployment(d, addr) == Or(Or(d.contractAddress, d.address), addr)

\* lines 78-89: look at deployment.json when there is no address yet
ResolveAddress(addr, d) ==
    IF FalsyStr(addr) /\ d.exists /\ d.parses THEN FromDeployment(d, addr) ELSE addr

\* lines 64-93: entry, the ethers version diagnostic, the contract address
getContract_resolve ==
    /\ pc = "getContract"
    /\ getContractCalls' = getContractCalls + 1
    /\ IF FalsyStr(EnvContractAddress)
       THEN \E d \in Deployments :
              /\ descriptorRead' = TRUE
              /\ deployment' = d
              /\ contractAddress' = ResolveAddress(EnvContractAddress, d)
              /\ stderr' = stderr + 1 + (IF d.exists THEN 1 ELSE 0)
       ELSE /\ contractAddress' = ResolveAddress(EnvContractAddress, NoDeployment)
            /\ stderr' = stderr + 1
            /\ UNCHANGED <<descriptorRead, deployment>>
    /\ IF FalsyStr(contractAddress')
       THEN Throw(InitError(NotFound))
       ELSE pc' = "provider" /\ UNCHANGED error
    /\ UNCHANGED <<argv, env, remote, action, payload, result, stdout, exitCode, calls,
                   provider, wallet, contract>>

\* lines 95-115: the provider, by the shape of the ethers import
getContract_provider ==
    /\ pc = "provider"
    /\ \E shape \in {"v5", "v6", "default", "none"}, built \in BOOLEAN :
          IF shape = "none"
          THEN /\ stderr' = stderr + 1
               /\ Throw(InitError(<<"No usable JsonRpcProvider found on ethers import.">>))
               /\ UNCHANGED provider
          ELSE IF built
          THEN /\ stderr' = stderr + 1
               /\ provider' = shape
               /\ pc' = "wallet"
               /\ UNCHANGED error
          ELSE /\ stderr' = stderr + 2
               /\ Throw(InitError(<<"could not construct provider">>))
               /\ UNCHANGED provider
    /\ UNCHANGED <<argv, env, remote, action, payload, result, stdout, exitCode, calls,
                   getContractCalls, contractAddress, descriptorRead, deployment,
                   wallet, contract>>

\* lines 117-126: the wallet, from CONFIG.PRIVATE_KEY
getContract_wallet ==
    /\ pc = "wallet"
    /\ stderr' = stderr + 1
    /\ IF CONFIG_PRIVATE_KEY = "invalid"
       THEN Throw(InitError(<<"invalid private key">>)) /\ UNCHANGED wallet
       ELSE wallet' = CONFIG_PRIVATE_KEY /\ pc' = "bind" /\ UNCHANGED error
    /\ UNCHANGED <<argv, env, remote, action, payload, result, stdout, exitCode, calls,
                   getContractCalls, contractAddress, descriptorRead, deployment,
                   provider, contract>>

\* lines 128-136: the contract bound to the address, the ABI and the wallet
getContract_bind ==
    /\ pc = "bind"
    /\ \E constructed \in BOOLEAN :
          IF ~constructed
          THEN /\ Throw(InitError(<<"invalid address or ENS name">>))
               /\ UNCHANGED <<contract, stderr>>
          ELSE IF "createSession" \notin CONTRACT_ABI
          THEN /\ stderr' = stderr + 1
               /\ Throw(InitError(<<"Contract instance invalid or missing expected methods. Check ABI and contract address.">>))
               /\ UNCHANGED contract
          ELSE /\ contract' = [address |-> contractAddress, methods |-> CONTRACT_ABI,
                                signer |-> wallet]
               /\ pc' = "call"
               /\ UNCHANGED <<error, stderr>>
    /\ UNCHANGED <<argv, env, remote, action, payload, result, stdout, exitCode, calls,
                   getContractCalls, contractAddress, descriptorRead, deployment,
                   provider, wallet>>

-----------------------------------------------------------------------------
(* The action handlers: validation, then (after getContract) the remote call *)

\* ABI entries without "view": calls that are sent as transactions
NonView == {"createSession", "markAttendance", "authorizeTeacher", "registerStudent"}

TxHashes == {"str:0xh1", "str:0xh2"}
RemoteErrors == {<<"execution reverted">>, <<>>}

\* what the remote answers to a submitted transaction: a tx with a hash, or an error
TxOutcomes ==
    {[ok |-> TRUE, hash |-> h, message |-> <<>>] : h \in TxHashes}
    \cup {[ok |-> FALSE, hash |-> "undefined", message |-> m] : m \in RemoteErrors}

\* what the remote answers to a view call returning one of `values`
ViewOutcomes(values) ==
    {[ok |-> TRUE, value |-> v, message |-> <<>>] : v \in values}
    \cup {[ok |-> FALSE, value |-> "undefined", message |-> m] : m \in RemoteErrors}

\* the attendance record tuple the contract returns
StoredRecord ==
    [sessionCode |-> "str:sessionCode", classId |-> "str:classId",
     studentId |-> "str:studentId", studentAddress |-> "str:0xstudent",
     timestamp |-> "big:7", verified |-> "bool:true"]

RecordOutcomes ==
    {[ok |-> TRUE, message |-> <<>>]}
    \cup {[ok |-> FALSE, message |-> m] : m \in RemoteErrors}

\* the record object a handler builds from the tuple
Shaped(record) ==
    [sessionCode |-> record.sessionCode, classId |-> record.classId,
     studentId |-> record.studentId, studentAddress |-> record.studentAddress,
     timestamp |-> Number(record.timestamp), verified |-> record.verified]

\* one call on the contract object, as the remote sees it
RemoteCall(fn, args, gas, ok) ==
    [fn |-> fn, args |-> args, gasLimit |-> gas, mutating |-> fn \in NonView, ok |-> ok]

Missing(names) ==
    IF Len(names) = 1 THEN <<"Missing required field: ", names[1]>>
    ELSE IF Len(names) = 2 THEN <<"Missing required fields: ", names[1], ", ", names[2]>>
    ELSE <<"Missing required fields: ", names[1], ", ", names[2], ", ", names[3]>>

\* `${fn} failed: ${error && error.message ? error.message : error}`
Failed(fn, msg) == <<fn, " failed", ": ">> \o MessageOf(msg)

NotImplemented(fn) == Throw(<<"Contract not initialized or does not implement ", fn>>)

\* const { x = d } = payload
Default(v, d) == IF v = "undefined" THEN d ELSE v

\* a handler head that goes on to getContract without its checks
Validate_skipped(first, missing, names) == pc' = "getContract" /\ UNCHANGED error

\* the head of a handler: destructure the payload, check the required fields
Validate(first, missing, names) ==
    IF payload.kind = "null" THEN Throw(DestructureError(first))
    ELSE IF missing THEN Throw(Missing(names))
    ELSE pc' = "getContract" /\ UNCHANGED error

ValidateFrame ==
    UNCHANGED <<argv, env, remote, action, payload, result, stdout, stderr, exitCode,
                calls, getContractCalls, contractAddress, descriptorRead, deployment,
                provider, wallet, contract>>

CallFrame ==
    UNCHANGED <<argv, env, remote, action, payload, stdout, exitCode, getContractCalls,
                contractAddress, descriptorRead, deployment, provider, wallet, contract>>

\* a submitted transaction, as the remote sees it, with the tx.hash it answered
Transaction(fn, args, gas, out) ==
    [fn |-> fn, args |-> args, gasLimit |-> gas, mutating |-> fn \in NonView,
     ok |-> out.ok, hash |-> out.hash]

\* the tail of a mutating handler: submit, then return the shaped result or throw
Submit(fn, args, gas, shaped) ==
    IF fn \notin contract.methods
    THEN NotImplemented(fn) /\ UNCHANGED <<calls, result, stderr>>
    ELSE \E out \in TxOutcomes :
           /\ calls' = Append(calls, Transaction(fn, args, gas, out))
           /\ IF out.ok
              THEN result' = shaped[out.hash] /\ pc' = "return" /\ UNCHANGED error
              ELSE Throw(Failed(fn, out.message)) /\ UNCHANGED result

\* the tail of a read-only handler
View(fn, args, values, shaped) ==
    IF fn \notin contract.methods
    THEN NotImplemented(fn) /\ UNCHANGED <<calls, result, stderr>>
    ELSE \E out \in ViewOutcomes(values) :
           /\ calls' = Append(calls, RemoteCall(fn, args, "undefined", out.ok))
           /\ IF out.ok
              THEN result' = shaped[out.value] /\ pc' = "return"
                   /\ UNCHANGED <<error, stderr>>
              ELSE Throw(Failed(fn, out.message)) /\ stderr' = stderr + 1
                   /\ UNCHANGED result

\* the tail of a handler that reads a record
ViewRecord(fn, args) ==
    IF fn \notin contract.methods
    THEN NotImplemented(fn) /\ UNCHANGED <<calls, result, stderr>>
    ELSE \E out \in RecordOutcomes :
           /\ calls' = Append(calls, RemoteCall(fn, args, "undefined", out.ok))
           /\ IF out.ok
              THEN result' = [success |-> "bool:true", record |-> Shaped(StoredRecord)]
                   /\ pc' = "return" /\ UNCHANGED <<error, stderr>>
              ELSE Throw(Failed(fn, out.message)) /\ stderr' = stderr + 1
                   /\ UNCHANGED result

\* lines 148-155
createSession ==
    /\ pc = "handler" /\ action = "createSession"
    /\ Validate("sessionCode", Falsy(Get(payload, "sessionCode")) \/ Falsy(Get(payload, "classId")),
                <<"sessionCode", "classId">>)
    /\ ValidateFrame

createSession_result(hash) ==
    [success |-> "bool:true", txHash |-> hash, sessionCode |-> Get(payload, "sessionCode"),
     classId |-> Get(payload, "classId"),
     message |-> "str:Transaction submitted (not awaited); confirm status asynchronously."]

\* the default written as durationMinutes || 30
createSession_duration_or == OrVal(Get(payload, "durationMinutes"), "num:30")

\* the third argument: const { durationMinutes = 30 } = payload (line 149)
createSession_duration == Default(Get(payload, "durationMinutes"), "num:30")

\* lines 157-178
createSession_call ==
    /\ pc = "call" /\ action = "createSession"
    /\ Submit("createSession",
              <<Get(payload, "sessionCode"), Get(payload, "classId"), createSession_duration>>,
              CONFIG_GAS_LIMIT, [h \in TxHashes |-> createSession_result(h)])
    /\ IF "createSession" \in contract.methods THEN stderr' = stderr + 2 ELSE TRUE
    /\ CallFrame

\* lines 184-191
markAttendance ==
    /\ pc = "handler" /\ action = "markAttendance"
    /\ Validate("sessionCode", Falsy(Get(payload, "sessionCode")) \/ Falsy(Get(payload, "studentId")) \/ Falsy(Get(payload, "classId")),
                <<"sessionCode", "studentId", "classId">>)
    /\ ValidateFrame

\* the result of the variant that waits for the receipt and reports its block
markAttendance_result_confirmed(hash) ==
    [success |-> "bool:true", txHash |-> hash, blockNumber |-> "num:12",
     sessionCode |-> Get(payload, "sessionCode"), studentId |-> Get(payload, "studentId"),
     timestamp |-> "num:now", message |-> "str:Attendance marked"]

markAttendance_result(hash) ==
    [success |-> "bool:true", txHash |-> hash, blockNumber |-> "null",
     sessionCode |-> Get(payload, "sessionCode"), studentId |-> Get(payload, "studentId"),
     timestamp |-> "num:now", message |-> "str:Transaction submitted (not awaited)"]

\* lines 192-212
markAttendance_call ==
    /\ pc = "call" /\ action = "markAttendance"
    /\ Submit("markAttendance",
              <<Get(payload, "sessionCode"), Get(payload, "studentId"), Get(payload, "classId")>>,
              CONFIG_GAS_LIMIT, [h \in TxHashes |-> markAttendance_result(h)])
    /\ IF "markAttendance" \in contract.methods THEN stderr' = stderr + 2 ELSE TRUE
    /\ CallFrame

\* lines 218-223
isSessionValid ==
    /\ pc = "handler" /\ action = "isSessionValid"
    /\ Validate("sessionCode", Falsy(Get(payload, "sessionCode")),
                <<"sessionCode">>)
    /\ ValidateFrame

isSessionValid_result(valid) ==
    [success |-> "bool:true", sessionCode |-> Get(payload, "sessionCode"), isValid |-> valid]

\* lines 224-237
isSessionValid_call ==
    /\ pc = "call" /\ action = "isSessionValid"
    /\ View("isSessionValid", <<Get(payload, "sessionCode")>>, {remote.sessionValid},
            [v \in {remote.sessionValid} |-> isSessionValid_result(v)])
    /\ CallFrame

\* lines 243-250
hasAttended ==
    /\ pc = "handler" /\ action = "hasAttended"
    /\ Validate("sessionCode", Falsy(Get(payload, "sessionCode")) \/ Falsy(Get(payload, "studentId")),
                <<"sessionCode", "studentId">>)
    /\ ValidateFrame

hasAttended_result(attended) ==
    [success |-> "bool:true", sessionCode |-> Get(payload, "sessionCode"),
     studentId |-> Get(payload, "studentId"), hasAttended |-> attended]

\* lines 251-266
hasAttended_call ==
    /\ pc = "call" /\ action = "hasAttended"
    /\ View("hasAttended", <<Get(payload, "sessionCode"), Get(payload, "studentId")>>,
            {remote.attended},
            [v \in {remote.attended} |-> hasAttended_result(v)])
    /\ CallFrame

\* lines 272-279
getAttendanceRecord ==
    /\ pc = "handler" /\ action = "getAttendanceRecord"
    /\ Validate("sessionCode", Falsy(Get(payload, "sessionCode")) \/ Falsy(Get(payload, "studentId")),
                <<"sessionCode", "studentId">>)
    /\ ValidateFrame

\* lines 280-300
getAttendanceRecord_call ==
    /\ pc = "call" /\ action = "getAttendanceRecord"
    /\ ViewRecord("getAttendanceRecord",
                  <<Get(payload, "sessionCode"), Get(payload, "studentId")>>)
    /\ CallFrame

\* lines 306-307: no payload is read, getContract is the first statement
getTotalRecords ==
    /\ pc = "handler" /\ action = "getTotalRecords"
    /\ pc' = "getContract"
    /\ UNCHANGED error
    /\ ValidateFrame

getTotalRecords_result(total) == [success |-> "bool:true", totalRecords |-> Number(total)]

\* lines 308-320
getTotalRecords_call ==
    /\ pc = "call" /\ action = "getTotalRecords"
    /\ View("getTotalRecords", <<>>, {"big:0", "big:7"},
            [v \in {"big:0", "big:7"} |-> getTotalRecords_result(v)])
    /\ CallFrame

\* lines 326-333
getRecordByIndex ==
    /\ pc = "handler" /\ action = "getRecordByIndex"
    /\ Validate("index", Get(payload, "index") = "undefined",
                <<"index">>)
    /\ ValidateFrame

\* lines 334-354
getRecordByIndex_call ==
    /\ pc = "call" /\ action = "getRecordByIndex"
    /\ ViewRecord("getRecordByIndex", <<Get(payload, "index")>>)
    /\ CallFrame

\* lines 360-367
authorizeTeacher ==
    /\ pc = "handler" /\ action = "authorizeTeacher"
    /\ Validate("teacherAddress", Falsy(Get(payload, "teacherAddress")),
                <<"teacherAddress">>)
    /\ ValidateFrame

authorizeTeacher_result(hash) ==
    [success |-> "bool:true", txHash |-> hash,
     teacherAddress |-> Get(payload, "teacherAddress")]

\* lines 368-383
authorizeTeacher_call ==
    /\ pc = "call" /\ action = "authorizeTeacher"
    /\ Submit("authorizeTeacher", <<Get(payload, "teacherAddress")>>, CONFIG_GAS_LIMIT,
              [h \in TxHashes |-> authorizeTeacher_result(h)])
    /\ IF "authorizeTeacher" \in contract.methods THEN stderr' = stderr + 2 ELSE TRUE
    /\ CallFrame

\* lines 389-396
registerStudent ==
    /\ pc = "handler" /\ action = "registerStudent"
    /\ Validate("studentId", Falsy(Get(payload, "studentId")) \/ Falsy(Get(payload, "studentAddress")),
                <<"studentId", "studentAddress">>)
    /\ ValidateFrame

registerStudent_result(hash) ==
    [success |-> "bool:true", txHash |-> hash, studentId |-> Get(payload, "studentId"),
     studentAddress |-> Get(payload, "studentAddress")]

\* lines 397-413
registerStudent_call ==
    /\ pc = "call" /\ action = "registerStudent"
    /\ Submit("registerStudent",
              <<Get(payload, "studentId"), Get(payload, "studentAddress")>>,
              CONFIG_GAS_LIMIT, [h \in TxHashes |-> registerStudent_result(h)])
    /\ IF "registerStudent" \in contract.methods THEN stderr' = stderr + 2 ELSE TRUE
    /\ CallFrame

-----------------------------------------------------------------------------

Next ==
    \/ main_parse
    \/ main_switch
    \/ createSession
    \/ markAttendance
    \/ isSessionValid
    \/ hasAttended
    \/ getAttendanceRecord
    \/ getTotalRecords
    \/ getRecordByIndex
    \/ authorizeTeacher
    \/ registerStudent
    \/ getContract_resolve
    \/ getContract_provider
    \/ getContract_wallet
    \/ getContract_bind
    \/ createSession_call
    \/ markAttendance_call
    \/ isSessionValid_call
    \/ hasAttended_call
    \/ getAttendanceRecord_call
    \/ getTotalRecords_call
    \/ getRecordByIndex_call
    \/ authorizeTeacher_call
    \/ registerStudent_call
    \/ main_print
    \/ main_catch

Spec == Init /\ [][Next]_vars

-----------------------------------------------------------------------------
(* Properties *)

Terminated == pc = "done"

\* the object on stdout of a terminated invocation
Printed == stdout[1]

IsJsonObject(o) == o.success \in {"bool:true", "bool:false"}

\* C1: every invocation that has terminated has written exactly one JSON object
\* to stdout, and no invocation ever holds two; before termination stdout is
\* empty, whatever went to stderr.
C1_ExactlyOneObject ==
    /\ Len(stdout) <= 1
    /\ Terminated <=> Len(stdout) = 1
    /\ Terminated <=> exitCode # -1
    /\ \A i \in 1..Len(stdout) : IsJsonObject(stdout[i])
    /\ stderr >= 3

\* a run that failed in the remote call, after diagnostics, has printed its one object
C1_Witness ==
    /\ Terminated
    /\ Len(calls) = 1 /\ ~calls[1].ok
    /\ stderr > 3
    /\ Len(stdout) = 1

\* C2: the exit code is 0 exactly when the handler returned a result, which is
\* then the object printed, with success = true; otherwise the exit code is 1
\* and the object printed has success = false and the failure message as error.
C2_ExitCode ==
    Terminated =>
        /\ exitCode \in {0, 1}
        /\ exitCode = 0 <=> result # NoResult
        /\ exitCode = 0 => Printed = result /\ Printed.success = "bool:true"
        /\ exitCode = 1 => /\ Printed.success = "bool:false"
                           /\ error # <<>>
                           /\ Printed.error = error

\* both exits happen: a printed result, and a printed remote-call failure
C2_Witness ==
    /\ Terminated
    /\ exitCode = 1
    /\ Len(calls) = 1 /\ ~calls[1].ok
    /\ Contains(Printed.error, " failed")

\* the required fields of each action
Required(h) ==
    CASE h = "createSession"       -> {"sessionCode", "classId"}
      [] h = "markAttendance"      -> {"sessionCode", "studentId", "classId"}
      [] h = "isSessionValid"      -> {"sessionCode"}
      [] h = "hasAttended"         -> {"sessionCode", "studentId"}
      [] h = "getAttendanceRecord" -> {"sessionCode", "studentId"}
      [] h = "getRecordByIndex"    -> {"index"}
      [] h = "authorizeTeacher"    -> {"teacherAddress"}
      [] h = "registerStudent"     -> {"studentId", "studentAddress"}
      [] OTHER                     -> {}

\* the payload argument is a JSON object (or is omitted, which gives {})
ObjectGiven == argv.n >= 1 /\ argv.payload.kind \in {"omitted", "empty", "object"}

\* the required fields that are absent or empty in the payload given
MissingFields ==
    {f \in Required(argv.action) : argv.payload.f[f] \in {"undefined", "str:"}}

\* C3: when a required field of the action is absent or empty, neither
\* getContract nor a remote call ever happens, and the invocation ends with
\* success = false and an error naming every missing field.
C3_MissingFieldRejected ==
    (ObjectGiven /\ argv.action \in Handlers /\ MissingFields # {}) =>
        /\ getContractCalls = 0
        /\ calls = <<>>
        /\ Terminated =>
              /\ Printed.success = "bool:false"
              /\ \A f \in MissingFields : Contains(Printed.error, f)

\* the same statement with the empty string accepted as an index
C3_ExceptEmptyIndex ==
    (ObjectGiven /\ argv.action \in Handlers /\ MissingFields # {}
        /\ ~(argv.action = "getRecordByIndex" /\ argv.payload.f["index"] = "str:")) =>
        /\ getContractCalls = 0
        /\ calls = <<>>
        /\ Terminated =>
              /\ Printed.success = "bool:false"
              /\ \A f \in MissingFields : Contains(Printed.error, f)

\* no handler, client construction or remote call has run
NothingRun ==
    /\ pc \in {"main", "switch", "catch", "done"}
    /\ getContractCalls = 0
    /\ calls = <<>>
    /\ provider = "none" /\ wallet = "none" /\ contract = NoContract

\* C4 as stated: an action name outside the nine handlers always ends with
\* success = false, an error containing "Unknown action" and exit code 1, and
\* runs no handler, client construction or remote call.
C4_UnknownActionAlways ==
    (argv.n >= 1 /\ argv.action \notin Handlers) =>
        /\ NothingRun
        /\ Terminated =>
              /\ exitCode = 1
              /\ Printed.success = "bool:false"
              /\ Contains(Printed.error, "Unknown action")

\* C4 amended: an action name outside the nine handlers runs no handler, client
\* construction or remote call and ends with success = false and exit code 1;
\* the error contains "Unknown action" when the payload argument is omitted
\* or parses as JSON, and is the JSON parse error when it does not parse.
C4_UnknownAction ==
    (argv.n >= 1 /\ argv.action \notin Handlers) =>
        /\ NothingRun
        /\ Terminated =>
              /\ exitCode = 1
              /\ Printed.success = "bool:false"
              /\ IF argv.payload.kind = "invalid"
                 THEN ~Contains(Printed.error, "Unknown action")
                 ELSE /\ Contains(Printed.error, "Unknown action")
                      /\ Contains(Printed.error, argv.action)

\* an unknown action with a parseable payload has been rejected by name
C4_Witness ==
    /\ Terminated
    /\ argv.action = "frobnicate"
    /\ argv.payload.kind = "object"
    /\ Contains(Printed.error, "Unknown action")
    /\ exitCode = 1

\* the positions of the calls of remote function fn
CallsOf(fn) == {i \in 1..Len(calls) : calls[i].fn = fn}

\* C5: markAttendance makes the two read-only checks before it submits, and
\* submits nothing when the remote reports the session invalid or the student
\* as already attended.
C5_PreflightChecks ==
    /\ \A i \in CallsOf("markAttendance") :
          /\ \E j \in 1..(i - 1) : calls[j].fn = "isSessionValid"
          /\ \E j \in 1..(i - 1) : calls[j].fn = "hasAttended"
    /\ (argv.action = "markAttendance"
           /\ (remote.sessionValid = "bool:false" \/ remote.attended = "bool:true"))
          => CallsOf("markAttendance") = {}

\* C6: with PRIVATE_KEY unset no wallet is built from the built-in key, no
\* remote call is made, and an invocation that reached getContract's wallet
\* step has failed.
C6_FailClosed ==
    env.PRIVATE_KEY = "unset" =>
        /\ wallet # "default"
        /\ contract.signer # "default"
        /\ calls = <<>>
        /\ pc \notin {"bind", "call", "return"}

\* the first non-empty address of a list of candidates, Null when there is none
RECURSIVE FirstNonEmpty(_)
FirstNonEmpty(candidates) ==
    IF candidates = <<>> THEN Null
    ELSE IF Head(candidates) # Null /\ Head(candidates) # <<>> THEN Head(candidates)
    ELSE FirstNonEmpty(Tail(candidates))

\* the descriptor's candidates: none unless the file exists and parses
DescriptorCandidates ==
    IF deployment.exists /\ deployment.parses
    THEN <<deployment.contractAddress, deployment.address>>
    ELSE <<>>

\* getContract has got past its address resolution
Resolved == pc \in {"provider", "wallet", "bind", "call", "return"}

\* getContract failed in its address resolution
Unresolved ==
    getContractCalls = 1 /\ pc \in {"catch", "done"} /\ contractAddress \in {Null, <<>>}

\* C7: the address getContract uses and binds is the first non-empty one of
\* sanitized environment value, configuration value, descriptor contractAddress,
\* descriptor address; the descriptor is consulted only when environment and
\* configuration give none; with no address from any source getContract fails
\* with 'Contract address not found' before a provider or wallet exists.
C7_AddressPrecedence ==
    /\ getContractCalls > 0 =>
          contractAddress =
              FirstNonEmpty(<<SANITIZED_ENV_CONTRACT, CONFIG_CONTRACT_ADDRESS>>
                            \o DescriptorCandidates)
    /\ descriptorRead =>
          FirstNonEmpty(<<SANITIZED_ENV_CONTRACT, CONFIG_CONTRACT_ADDRESS>>) = Null
    /\ (getContractCalls > 0 /\ ~descriptorRead) => deployment = NoDeployment
    /\ Resolved => contractAddress \notin {Null, <<>>}
    /\ contract # NoContract => contract.address = contractAddress
    /\ Unresolved =>
          /\ Contains(error, "Contract address not found")
          /\ provider = "none" /\ wallet = "none" /\ contract = NoContract
          /\ calls = <<>>

\* the descriptor held both keys and the contract is bound to contractAddress
C7_Witness ==
    /\ descriptorRead
    /\ deployment.contractAddress = FileAddr /\ deployment.address = AltAddr
    /\ contract.address = FileAddr

\* the descriptor was there but gave nothing, and getContract failed
C7_WitnessNotFound ==
    /\ Unresolved
    /\ deployment.exists /\ deployment.parses

\* C8: sanitizeAddress gives A for A, KEY=A, quoted A, KEY= quoted A and quoted
\* KEY=A, gives the empty string for an unset or empty value, and the address
\* getContract takes from the environment is the sanitized value.
C8_SanitizedUsed ==
    /\ \A A \in Addresses : env.CONTRACT_ADDRESS \in Forms(A) => SANITIZED_ENV_CONTRACT = A
    /\ env.CONTRACT_ADDRESS \in {Null, <<>>} => SANITIZED_ENV_CONTRACT = <<>>
    /\ (getContractCalls > 0 /\ ~descriptorRead) => contractAddress = SANITIZED_ENV_CONTRACT

\* the sanitizer's part of C8, on every input form
C8_SanitizerForms ==
    /\ \A A \in Addresses : \A raw \in Forms(A) : sanitizeAddress(raw) = A
    /\ sanitizeAddress(Null) = <<>>
    /\ sanitizeAddress(<<>>) = <<>>

C9_WitnessGiven ==
    /\ CallsOf("createSession") # {}
    /\ argv.payload.f["durationMinutes"] = "num:0"
    /\ calls[1].args[3] = "num:0"

ReadOnly == {"isSessionValid", "hasAttended", "getAttendanceRecord", "getTotalRecords",
             "getRecordByIndex"}

\* the positions of the state-changing submissions
Submissions == {i \in 1..Len(calls) : calls[i].mutating}

\* C10: an invocation sends at most one state-changing submission: none for a
\* read-only action or an unknown one, none before getContract has returned,
\* and after a failed remote call nothing more is called.
C10_AtMostOneSubmission ==
    /\ Cardinality(Submissions) <= 1
    /\ Len(calls) <= 1
    /\ argv.action \notin NonView => Submissions = {}
    /\ argv.action \in ReadOnly => \A i \in 1..Len(calls) : calls[i].gasLimit = "undefined"
    /\ pc \notin {"return", "catch", "done"} => calls = <<>>
    /\ contract = NoContract => calls = <<>>
    /\ (calls # <<>> /\ ~calls[Len(calls)].ok) => pc \in {"catch", "done"}

\* a submission failed and the invocation ended with that one submission
C10_Witness ==
    /\ Terminated
    /\ Cardinality(Submissions) = 1
    /\ ~calls[1].ok
    /\ exitCode = 1

\* the gas ceiling the environment configures: GAS_LIMIT, or 7000000 without one
ConfiguredGas == IF env.GAS_LIMIT = "undefined" THEN "num:7000000" ELSE "num:500000"

\* the fields of a result object
Keys(r) == DOMAIN r

\* C11: every submission of a mutating handler carries the configured gas
\* ceiling; nothing is called after it (no wait for a receipt); and a result
\* returned by a mutating handler has txHash equal to the hash that submission
\* returned and no block reference other than null.
C11_SubmitAndReturn ==
    /\ \A i \in Submissions :
          /\ calls[i].fn = argv.action
          /\ calls[i].fn \in NonView
          /\ calls[i].gasLimit = ConfiguredGas
          /\ i = Len(calls)
    /\ (argv.action \in NonView /\ result # NoResult) =>
          /\ Len(calls) = 1
          /\ calls[1].ok
          /\ "txHash" \in Keys(result)
          /\ result.txHash = calls[1].hash
          /\ result.txHash \in TxHashes
          /\ "blockNumber" \in Keys(result) => result.blockNumber = "null"
          /\ Terminated => Printed = result

\* markAttendance has returned the hash of its one submission, sent with a
\* GAS_LIMIT taken from the environment
C11_Witness ==
    /\ Terminated
    /\ argv.action = "markAttendance"
    /\ exitCode = 0
    /\ env.GAS_LIMIT = "str:500000"
    /\ Len(calls) = 1 /\ calls[1].gasLimit = "num:500000"
    /\ Printed.txHash = "str:0xh2" /\ calls[1].hash = "str:0xh2"

\* the check a handler makes on its payload before it calls getContract
PassesValidation ==
    /\ action = argv.action
    /\ action \in Handlers
    /\ action # "getTotalRecords" =>
          /\ payload.kind # "null"
          /\ IF action = "getRecordByIndex"
             THEN "index" \in DOMAIN payload.f /\ payload.f["index"] # "undefined"
             ELSE \A f \in Required(action) :
                    payload.f[f] \notin {"undefined", "null", "str:", "num:0"}

\* getContract was entered and threw
GetContractFailed ==
    getContractCalls = 1 /\ contract = NoContract /\ pc \in {"catch", "done"}

\* C12: provider, wallet and contract exist only once getContract has built
\* them, never before the handler runs; getContract runs at most once, and only
\* for a recognised action whose payload passed the handler's check; a remote
\* call is made only on the contract a completed getContract returned; and a
\* failed getContract leaves no remote call and an error that main prints with
\* the prefix 'Failed to initialize contract'.
C12_LazyGetContract ==
    /\ getContractCalls <= 1
    /\ getContractCalls = 0 =>
          provider = "none" /\ wallet = "none" /\ contract = NoContract
    /\ pc \in {"main", "switch", "handler", "getContract"} => getContractCalls = 0
    /\ wallet # "none" => provider # "none"
    /\ contract # NoContract => wallet # "none" /\ contract.signer = wallet
    /\ getContractCalls > 0 => PassesValidation
    /\ calls # <<>> =>
          /\ getContractCalls = 1
          /\ contract # NoContract
          /\ contract.methods = CONTRACT_ABI
    /\ pc = "call" => contract # NoContract /\ calls = <<>>
    /\ GetContractFailed =>
          /\ calls = <<>>
          /\ result = NoResult
          /\ Len(error) >= 3
          /\ error[1] = "Failed to initialize contract"
          /\ Terminated => Printed.error = error /\ exitCode = 1

\* getContract failed at the wallet, after the provider, and main printed it
C12_Witness ==
    /\ Terminated
    /\ GetContractFailed
    /\ provider # "none" /\ wallet = "none"
    /\ Printed.error[1] = "Failed to initialize contract"
    /\ calls = <<>>

\* a remote call was made on the contract of the one completed getContract
C12_WitnessCall ==
    /\ Len(calls) = 1
    /\ getContractCalls = 1
    /\ contract # NoContract

====
